---- MODULE Spec2Model ----
(***************************************************************************)
(* A model of cargo-hfuzz (src/src/bin/cargo-hfuzz.rs): the orchestrator   *)
(* that locates the crate root, builds a fuzz target with cargo and then   *)
(* either execs honggfuzz or runs a debugger on a crash file.              *)
(*                                                                         *)
(* One invocation of the binary is one behaviour.  The program is          *)
(* single-threaded; pc is its position.  A text (String, OsString, Path    *)
(* given to format!) is a sequence of atoms, an atom being a run of        *)
(* characters the program never looks into; " " and "/" are atoms of       *)
(* their own, so that split_whitespace, file_name and concatenation are    *)
(* computed as the code computes them.                                     *)
(*                                                                         *)
(* The process environment and the installed rustc are inputs.  They do    *)
(* not change during an invocation; the model fixes the value of a         *)
(* variable the first time the program reads it and returns the same       *)
(* value on every later read.                                              *)
(***************************************************************************)
EXTENDS Integers, Sequences, FiniteSets, TLC

\* ---------------------------------------------------------------- bounds
\* depth of the directory the invocation starts in (0 is the filesystem root)
MaxDepth == 2
\* number of command-line tokens that may follow the verb
MaxArgs == 3
\* largest exit code a child process returns
MaxExit == 2

\* exit code of a Rust process whose main thread panicked (unwrap on Err/None)
PanicCode == 101

\* ------------------------------------------------------------ constants
HONGGFUZZ_TARGET == <<"hfuzz_target">>
HONGGFUZZ_WORKSPACE == <<"hfuzz_workspace">>
\* env!("CARGO_PKG_VERSION"): the version of the package, fixed at compile time
VERSION == <<"0.5">>

BuildType == {"ReleaseInstrumented", "ReleaseNotInstrumented", "Debug"}

\* ------------------------------------------------------------------ text
\* format!("{}{}...") and push_str are \o, the concatenation of the parts

\* a Rust literal "w1 w2 ... wn " written with line continuations: every
\* word is followed by one space, the last one included
RECURSIVE Literal(_)
Literal(words) ==
    IF words = <<>> THEN <<>>
    ELSE <<Head(words), " ">> \o Literal(Tail(words))

\* str::split_whitespace: the maximal runs of non-space atoms, in order
RECURSIVE SplitFrom(_, _)
SplitFrom(s, cur) ==
    IF s = <<>> THEN (IF cur = <<>> THEN <<>> ELSE <<cur>>)
    ELSE IF Head(s) = " "
         THEN (IF cur = <<>> THEN <<>> ELSE <<cur>>) \o SplitFrom(Tail(s), <<>>)
         ELSE SplitFrom(Tail(s), Append(cur, Head(s)))

split_whitespace(s) == SplitFrom(s, <<>>)

\* str::contains for texts: sub occurs in s as a contiguous run
Contains(s, sub) ==
    \E i \in 1..(Len(s) - Len(sub) + 1) : SubSeq(s, i, i + Len(sub) - 1) = sub

\* Path::file_name: the last component, None for "" and for a path whose
\* last component is ".." (trailing separators are ignored)
RECURSIVE StripSlashes(_)
StripSlashes(p) ==
    IF p # <<>> /\ p[Len(p)] = "/" THEN StripSlashes(SubSeq(p, 1, Len(p) - 1))
    ELSE p

RECURSIVE LastComponent(_)
LastComponent(p) ==
    IF p = <<>> \/ p[Len(p)] = "/" THEN <<>>
    ELSE Append(LastComponent(SubSeq(p, 1, Len(p) - 1)), p[Len(p)])

file_name(p) ==
    LET name == LastComponent(StripSlashes(p))
    IN  IF name = <<>> \/ name = <<"..">>
        THEN [some |-> FALSE, val |-> <<>>]
        ELSE [some |-> TRUE, val |-> name]

\* ------------------------------------------------------------ the inputs
\* command line after the program name (env::args().skip(1)); every token
\* is a text.  The i-th token after the verb:
ArgTok(i) == IF i = 1 THEN <<"foo">> ELSE IF i = 2 THEN <<"crash.bin">> ELSE <<"-v">>

Rest(n) == [i \in 1..n |-> ArgTok(i)]

Verbs == { <<"build">>, <<"build-no-inst">>, <<"build-debug">>, <<"run">>,
           <<"run-no-inst">>, <<"run-debug">>, <<"clean">>, <<"version">> }

Argvs ==
    { <<>>, <<<<"hfuzz">>>>, <<<<"build">>>>, <<<<"run">>, <<"foo">>>> }
    \cup { <<<<"hfuzz">>, v>> \o Rest(n) : v \in Verbs \cup {<<"bogus">>}, n \in 0..MaxArgs }

\* the filesystem: a directory is the sequence of its path components, the
\* root is <<>>; the invocation starts in StartDir
DirName(i) == <<"dir", i>>

StartDir == [i \in 1..MaxDepth |-> DirName(i)]

Ancestors(dir) == { SubSeq(dir, 1, n) : n \in 0..Len(dir) }

\* the process environment: a variable is unread, unset or set to a text
EnvNames == { "CARGO", "CARGO_TARGET_DIR", "HFUZZ_WORKSPACE", "HFUZZ_INPUT",
              "RUSTFLAGS", "HFUZZ_BUILD_ARGS", "HFUZZ_RUN_ARGS", "HFUZZ_DEBUGGER",
              "RUST_BACKTRACE", "ASAN_OPTIONS", "TSAN_OPTIONS" }

Unread == [st |-> "unread", val |-> <<>>]
Unset == [st |-> "unset", val |-> <<>>]
SetTo(v) == [st |-> "set", val |-> v]

EnvTexts(n) ==
    CASE n = "CARGO" -> { <<"cargo">> }
      [] n = "CARGO_TARGET_DIR" -> { <<"tgt">> }
      [] n = "HFUZZ_WORKSPACE" -> { <<"ws">> }
      [] n = "HFUZZ_INPUT" -> { <<"seeds">> }
      [] n = "RUSTFLAGS" -> { <<"-C", " ", "opt-level=1">> }
      [] n = "HFUZZ_BUILD_ARGS" -> { <<" ", "--features", " ", "x", " ", "--release">> }
      [] n = "HFUZZ_RUN_ARGS" -> { <<"-n", " ", "1">> }
      [] n = "HFUZZ_DEBUGGER" -> { <<"gdb">>, <<"/", "opt", "/", "lldb", "/", "gdb">>,
                                   <<"/", "usr", "/", "bin", "/", "lldb">> }
      [] n = "RUST_BACKTRACE" -> { <<"full">> }
      [] n = "ASAN_OPTIONS" -> { <<"detect_leaks=0">> }
      [] n = "TSAN_OPTIONS" -> { <<"halt_on_error=1">> }

EnvValues(n) == {Unset} \cup { SetTo(v) : v \in EnvTexts(n) }

NothingRead ==
    [ CARGO |-> Unread, CARGO_TARGET_DIR |-> Unread, HFUZZ_WORKSPACE |-> Unread,
      HFUZZ_INPUT |-> Unread, RUSTFLAGS |-> Unread, HFUZZ_BUILD_ARGS |-> Unread,
      HFUZZ_RUN_ARGS |-> Unread, HFUZZ_DEBUGGER |-> Unread, RUST_BACKTRACE |-> Unread,
      ASAN_OPTIONS |-> Unread, TSAN_OPTIONS |-> Unread ]

\* the values variable n may turn out to have when the program reads the
\* variables in names, given what it has read so far
Pick(e, n, names) ==
    IF n \in names /\ e[n].st = "unread" THEN EnvValues(n) ELSE { e[n] }

\* the environments the program may observe after reading names
Observe(e, names) ==
    [ CARGO : Pick(e, "CARGO", names),
      CARGO_TARGET_DIR : Pick(e, "CARGO_TARGET_DIR", names),
      HFUZZ_WORKSPACE : Pick(e, "HFUZZ_WORKSPACE", names),
      HFUZZ_INPUT : Pick(e, "HFUZZ_INPUT", names),
      RUSTFLAGS : Pick(e, "RUSTFLAGS", names),
      HFUZZ_BUILD_ARGS : Pick(e, "HFUZZ_BUILD_ARGS", names),
      HFUZZ_RUN_ARGS : Pick(e, "HFUZZ_RUN_ARGS", names),
      HFUZZ_DEBUGGER : Pick(e, "HFUZZ_DEBUGGER", names),
      RUST_BACKTRACE : Pick(e, "RUST_BACKTRACE", names),
      ASAN_OPTIONS : Pick(e, "ASAN_OPTIONS", names),
      TSAN_OPTIONS : Pick(e, "TSAN_OPTIONS", names) ]

\* env::var(n).unwrap_or(d), and unwrap_or_default with d = ""
unwrap_or(v, d) == IF v.st = "set" THEN v.val ELSE d

\* the installed compiler: whether `rustc -v -V` can be started, and the
\* lines it prints; the first atom of a line is its first six characters
RustcUnknown == [st |-> "unknown", out |-> <<>>]

Rustcs ==
    { [st |-> "missing", out |-> <<>>],
      [st |-> "ran", out |-> << <<"rustc ", "1.70.0">>, <<"binary", ": rustc">> >>],
      [st |-> "ran", out |-> << <<"rustc ", "1.70.0">>, <<"host: ", "x86_64-unknown-linux-gnu">>,
                               <<"releas", "e: 1.70.0">> >>] }

\* how a child the orchestrator starts and waits for ends: it cannot be
\* started, it exits with a code, or a signal kills it
Outcomes ==
    { [res |-> "nostart", code |-> -1], [res |-> "signal", code |-> -1] }
    \cup { [res |-> "exit", code |-> c] : c \in 0..MaxExit }

\* ------------------------------------------------------------- the state
VARIABLES
    argv,         \* the command line (input)
    macos,        \* cfg!(target_os = "macos") of the build of the orchestrator
    manifests,    \* the directories that hold a file Cargo.toml
    env,          \* the process environment as read so far
    rustc,        \* the installed compiler as observed so far
    pc,           \* position of the program
    args,         \* the iterator `args`: the tokens not yet consumed
    path,         \* cd_to_crate_root: the local `path`
    cwd,          \* the process working directory
    cwdWrites,    \* number of env::set_current_dir calls so far
    build_type,   \* the BuildType the verb selected
    run,          \* hfuzz_run: its locals
    build,        \* hfuzz_build: its parameters and locals
    procs,        \* the commands started so far, in order, with how each ended
    dirs,         \* the directories fs::create_dir_all created
    output,       \* the messages printed so far
    exitCode      \* the exit code once pc = "exited", -1 before

vars == << argv, macos, manifests, env, rustc, pc, args, path, cwd, cwdWrites,
           build_type, run, build, procs, dirs, output, exitCode >>

NoRun == [ target |-> <<>>, honggfuzz_target |-> <<>>, honggfuzz_workspace |-> <<>>,
           honggfuzz_input |-> <<>>, crash_filename |-> <<>>, mkdir |-> "none" ]

NoBuild == [ caller |-> "none", args |-> <<>>, honggfuzz_target |-> <<>>,
             computed |-> <<>>, rustflags |-> <<>>, hfuzz_build_args |-> <<>>,
             cargo_bin |-> <<>> ]

Init ==
    /\ argv \in Argvs
    /\ macos \in BOOLEAN
    /\ manifests \in SUBSET Ancestors(StartDir)
    /\ env = NothingRead
    /\ rustc = RustcUnknown
    /\ pc = "main"
    /\ args = argv
    /\ path = <<>>
    /\ cwd = StartDir
    /\ cwdWrites = 0
    /\ build_type = "none"
    /\ run = NoRun
    /\ build = NoBuild
    /\ procs = <<>>
    /\ dirs = {}
    /\ output = <<>>
    /\ exitCode = -1

\* ------------------------------------------------------------- helpers
\* process::exit(code)
Exit(code) ==
    /\ pc' = "exited"
    /\ exitCode' = code

\* eprintln!(msg); process::exit(code)
Fail(msg, code) ==
    /\ output' = Append(output, msg)
    /\ Exit(code)

\* a panic of the main thread: the message goes to the error stream and the
\* process exits with PanicCode
Panic == Fail("panic", PanicCode)

\* one entry of procs: the program started, its arguments (each with who
\* supplied it, an annotation the program does not keep), the environment
\* variables set on it, and how it ended
Cmd(kind, prog, cargs, cenv, end) ==
    [ kind |-> kind, prog |-> prog, args |-> cargs, env |-> cenv, end |-> end ]

By(who, toks) == [i \in 1..Len(toks) |-> [tok |-> toks[i], by |-> who]]

Toks(cargs) == [i \in 1..Len(cargs) |-> cargs[i].tok]

Started(c) == c.end.res # "nostart"

\* a faulty variant of success: any exit counts as success, whatever the code
success_ignoring_code(end) == end.res = "exit"

\* status.success()
success(end) == end.res = "exit" /\ end.code = 0

\* a faulty variant of code_or_1: every failure is reported as 1
code_always_1(end) == 1

\* status.code().unwrap_or(1)
code_or_1(end) == IF end.res = "exit" THEN end.code ELSE 1

\* ------------------------------------------------------ target_triple()
\* lines 21-26: run `rustc -v -V`, take the first line that starts with
\* "host: " and drop its first six characters; every unwrap panics
RustcCmd(r) ==
    Cmd("rustc", <<"rustc">>, By("orchestrator", << <<"-v">>, <<"-V">> >>), {},
        IF r.st = "missing" THEN [res |-> "nostart", code |-> -1]
        ELSE [res |-> "exit", code |-> 0])

HostLines(r) == SelectSeq(r.out, LAMBDA l : l # <<>> /\ l[1] = "host: ")

target_triple(r) ==
    IF r.st = "missing" \/ HostLines(r) = <<>>
    THEN [ok |-> FALSE, triple |-> <<>>]
    ELSE [ok |-> TRUE, triple |-> Tail(HostLines(r)[1])]

ObserveRustc == IF rustc.st = "unknown" THEN Rustcs ELSE { rustc }

\* ------------------------------------------------------------- main()
\* line 217: args.next() == Some("hfuzz")
\* a faulty variant of is_cargo_subcommand: any first token is accepted
any_first_token(a) == a # <<>>

is_cargo_subcommand(a) == a # <<>> /\ Head(a) = <<"hfuzz">>

\* lines 216-220: the first token after the program name must be "hfuzz"
Main ==
    /\ pc = "main"
    /\ IF is_cargo_subcommand(args)
       THEN /\ args' = Tail(args)
            /\ pc' = "cd_to_crate_root"
            /\ UNCHANGED << output, exitCode >>
       ELSE /\ args' = (IF args = <<>> THEN args ELSE Tail(args))
            /\ Fail("please launch as a cargo subcommand", 1)
    /\ UNCHANGED << argv, macos, manifests, env, rustc, path, cwd, cwdWrites,
                    build_type, run, build, procs, dirs >>

\* ----------------------------------------------------- cd_to_crate_root()
\* line 33: path = env::current_dir()
CdStart ==
    /\ pc = "cd_to_crate_root"
    /\ path' = cwd
    /\ pc' = "cd_loop"
    /\ UNCHANGED << argv, macos, manifests, env, rustc, args, cwd, cwdWrites,
                    build_type, run, build, procs, dirs, output, exitCode >>

\* path.join("Cargo.toml").is_file()
has_manifest(p) == p \in manifests

\* a faulty variant of parent: the walk jumps from any directory to the root
parent_is_root(p) ==
    IF p = <<>> THEN [some |-> FALSE, val |-> <<>>]
    ELSE [some |-> TRUE, val |-> <<>>]

\* a faulty variant of parent: the root is its own parent (what "/.."
\* resolves to), so that the walk never sees None
parent_of_root_is_root(p) ==
    IF p = <<>> THEN [some |-> TRUE, val |-> <<>>]
    ELSE [some |-> TRUE, val |-> SubSeq(p, 1, Len(p) - 1)]

\* Path::parent(): None for the root
parent(p) ==
    IF p = <<>> THEN [some |-> FALSE, val |-> <<>>]
    ELSE [some |-> TRUE, val |-> SubSeq(p, 1, Len(p) - 1)]

\* a faulty variant of CdStep: the walk changes the working directory at every turn
\* (a chdir("..") loop) instead of once after the loop
CdStep_chdir_each_turn ==
    /\ pc = "cd_loop"
    /\ IF cwd \in manifests
       THEN /\ pc' = "dispatch"
            /\ UNCHANGED << path, cwd, cwdWrites, output, exitCode >>
       ELSE IF cwd # <<>>
       THEN /\ cwd' = SubSeq(cwd, 1, Len(cwd) - 1)
            /\ cwdWrites' = cwdWrites + 1
            /\ UNCHANGED << pc, path, output, exitCode >>
       ELSE /\ Fail("error: could not find Cargo.toml", 1)
            /\ UNCHANGED << path, cwd, cwdWrites >>
    /\ UNCHANGED << argv, macos, manifests, env, rustc, args, build_type, run,
                    build, procs, dirs >>

\* lines 35-46: one test of the loop condition, then either one turn of the
\* loop body or the set_current_dir that follows the loop
CdStep ==
    /\ pc = "cd_loop"
    /\ IF has_manifest(path)
       THEN /\ cwd' = path
            /\ cwdWrites' = cwdWrites + 1
            /\ pc' = "dispatch"
            /\ UNCHANGED << path, output, exitCode >>
       ELSE IF parent(path).some
       THEN /\ path' = parent(path).val
            /\ UNCHANGED << pc, cwd, cwdWrites, output, exitCode >>
       ELSE /\ Fail("error: could not find Cargo.toml", 1)
            /\ UNCHANGED << path, cwd, cwdWrites >>
    /\ UNCHANGED << argv, macos, manifests, env, rustc, args, build_type, run,
                    build, procs, dirs >>

\* ---------------------------------------------------- main(), the match
VerbType(v) ==
    CASE v \in { <<"build">>, <<"run">> } -> "ReleaseInstrumented"
      [] v \in { <<"build-no-inst">>, <<"run-no-inst">> } -> "ReleaseNotInstrumented"
      [] v \in { <<"build-debug">>, <<"run-debug">> } -> "Debug"
      [] OTHER -> "none"

VerbEntry(v) ==
    CASE v \in { <<"build">>, <<"build-no-inst">>, <<"build-debug">> } -> "hfuzz_build"
      [] v \in { <<"run">>, <<"run-no-inst">>, <<"run-debug">> } -> "hfuzz_run"
      [] v = <<"clean">> -> "hfuzz_clean"
      [] v = <<"version">> -> "hfuzz_version"
      [] OTHER -> "usage"

\* lines 225-254: the second token selects the function and the BuildType;
\* the build verbs hand the remaining tokens to hfuzz_build
Dispatch ==
    /\ pc = "dispatch"
    /\ LET entry == IF args = <<>> THEN "usage" ELSE VerbEntry(Head(args))
           rest == IF args = <<>> THEN args ELSE Tail(args)
       IN  /\ args' = (IF entry = "hfuzz_build" THEN <<>> ELSE rest)
           /\ IF entry = "usage"
              THEN /\ Fail("possible commands are: run, run-debug, build, build-debug, clean, version", 1)
                   /\ UNCHANGED << build_type, build >>
              ELSE /\ pc' = entry
                   /\ build_type' = VerbType(Head(args))
                   /\ build' = IF entry = "hfuzz_build"
                               THEN [build EXCEPT !.caller = "main",
                                                  !.args = By("passthrough", rest)]
                               ELSE build
                   /\ UNCHANGED << output, exitCode >>
    /\ UNCHANGED << argv, macos, manifests, env, rustc, path, cwd, cwdWrites,
                    run, procs, dirs >>

\* lines 28-30 and the return of main
Version ==
    /\ pc = "hfuzz_version"
    /\ output' = Append(output, "cargo-hfuzz VERSION")
    /\ Exit(0)
    /\ UNCHANGED << argv, macos, manifests, env, rustc, args, path, cwd, cwdWrites,
                    build_type, run, build, procs, dirs >>

\* ---------------------------------------------------------- hfuzz_build()
\* lines 133-137: the flags of every mode
CommonFlags ==
    Literal(<< "--cfg", "fuzzing", "-C", "debug-assertions", "-C", "overflow_checks" >>)

\* lines 141-146
DebugFlags ==
    Literal(<< "--cfg", "fuzzing_debug", "-C", "panic=unwind", "-C", "opt-level=0",
               "-C", "debuginfo=2" >>)

\* lines 149-153
ReleaseFlags ==
    Literal(<< "-C", "panic=abort", "-C", "opt-level=3", "-C", "debuginfo=0" >>)

\* lines 156-161
SancovFlags ==
    Literal(<< "-C", "passes=sancov",
               "-C", "llvm-args=-sanitizer-coverage-level=4",
               "-C", "llvm-args=-sanitizer-coverage-trace-pc-guard",
               "-C", "llvm-args=-sanitizer-coverage-prune-blocks=0" >>)

\* lines 165-167
TraceComparesFlags ==
    Literal(<< "-C", "llvm-args=-sanitizer-coverage-trace-compares" >>)

\* a faulty variant of InstrumentationFlags: every release build is instrumented and
\* the platform is not looked at
InstrumentationFlags_every_release(bt, mac) ==
    IF bt # "Debug" THEN SancovFlags \o TraceComparesFlags ELSE <<>>

\* lines 155-169: what an instrumented release build adds
InstrumentationFlags(bt, mac) ==
    IF bt = "ReleaseInstrumented"
    THEN SancovFlags \o (IF ~mac THEN TraceComparesFlags ELSE <<>>)
    ELSE <<>>

\* a faulty variant of ModeFlags: the two arms of the match are exchanged
ModeFlags_arms_exchanged(bt, mac) ==
    IF bt # "Debug" THEN DebugFlags
    ELSE ReleaseFlags \o InstrumentationFlags(bt, mac)

\* lines 139-171: the match on the build type
ModeFlags(bt, mac) ==
    IF bt = "Debug" THEN DebugFlags
    ELSE ReleaseFlags \o InstrumentationFlags(bt, mac)

\* lines 133-171: rustflags before the user's flags are pushed
ComputedFlags(bt, mac) == CommonFlags \o ModeFlags(bt, mac)

\* a faulty variant of RustFlags: the user's flags, when given, are used
\* instead of the computed ones
RustFlags_user_replaces(computed, user) == IF user # <<>> THEN user ELSE computed

\* line 174: rustflags.push_str(&env::var("RUSTFLAGS").unwrap_or_default())
RustFlags(computed, user) == computed \o user

\* lines 183-185 and 190: the arguments of the build command, in the
\* order the calls add them
BuildArgs(triple, pass, user, bt) ==
    By("orchestrator", << <<"build">>, <<"--target">>, triple >>)
    \o pass
    \o By("user", split_whitespace(user))
    \o (IF bt # "Debug" THEN By("orchestrator", << <<"--release">> >>) ELSE <<>>)

\* a faulty variant of BuildEnv: the two markers are set in every mode
BuildEnv_markers_always(bt, rustflags, target_dir) ==
    { <<"RUSTFLAGS", rustflags>>, <<"CARGO_TARGET_DIR", target_dir>>,
      <<"CARGO_HONGGFUZZ_BUILD_VERSION", VERSION>>,
      <<"CARGO_HONGGFUZZ_TARGET_DIR", target_dir>> }

\* lines 186-187 and 191-192: the environment set on the build command
BuildEnv(bt, rustflags, target_dir) ==
    { <<"RUSTFLAGS", rustflags>>, <<"CARGO_TARGET_DIR", target_dir>> }
    \cup (IF bt # "Debug"
          THEN { <<"CARGO_HONGGFUZZ_BUILD_VERSION", VERSION>>,
                 <<"CARGO_HONGGFUZZ_TARGET_DIR", target_dir>> }
          ELSE {})

\* lines 131-182: read the environment and assemble the flags; CARGO is
\* unwrapped, so the function panics when it is not set
BuildPrepare ==
    /\ pc = "hfuzz_build"
    /\ \E e \in Observe(env, { "CARGO_TARGET_DIR", "RUSTFLAGS", "HFUZZ_BUILD_ARGS", "CARGO" }) :
          /\ env' = e
          /\ LET computed == ComputedFlags(build_type, macos)
             IN  build' = [build EXCEPT
                     !.honggfuzz_target = unwrap_or(e.CARGO_TARGET_DIR, HONGGFUZZ_TARGET),
                     !.computed = computed,
                     !.rustflags = RustFlags(computed, unwrap_or(e.RUSTFLAGS, <<>>)),
                     !.hfuzz_build_args = unwrap_or(e.HFUZZ_BUILD_ARGS, <<>>),
                     !.cargo_bin = unwrap_or(e.CARGO, <<>>)]
          /\ IF e.CARGO.st = "set"
             THEN pc' = "build_command" /\ UNCHANGED << output, exitCode >>
             ELSE Panic
    /\ UNCHANGED << argv, macos, manifests, rustc, args, path, cwd, cwdWrites,
                    build_type, run, procs, dirs >>

\* a faulty variant of AfterBuild: a release build ends the invocation, also for run
AfterBuild_release_returns(caller, bt) ==
    IF caller = "main" \/ bt # "Debug" THEN "exited" ELSE "run_debug"

\* where hfuzz_build returns to: the match of hfuzz_run, or the end of main
AfterBuild(caller, bt) ==
    IF caller = "main" THEN "exited"
    ELSE IF bt = "Debug" THEN "run_debug" ELSE "run_fuzz"

\* lines 183-198: resolve the triple, start the build tool, wait for it and
\* leave with its code when it failed
BuildCommand ==
    /\ pc = "build_command"
    /\ \E r \in ObserveRustc, end \in Outcomes :
          LET tt == target_triple(r)
              cmd == Cmd("build", build.cargo_bin,
                         BuildArgs(tt.triple, build.args, build.hfuzz_build_args, build_type),
                         BuildEnv(build_type, build.rustflags, build.honggfuzz_target),
                         end)
          IN  /\ rustc' = r
              /\ IF ~tt.ok
                 THEN /\ procs' = Append(procs, RustcCmd(r))
                      /\ Panic
                 ELSE /\ procs' = procs \o << RustcCmd(r), cmd >>
                      /\ IF end.res = "nostart" THEN Panic
                         ELSE IF ~success(end)
                         THEN Exit(code_or_1(end)) /\ UNCHANGED output
                         ELSE IF AfterBuild(build.caller, build_type) = "exited"
                         THEN Exit(0) /\ UNCHANGED output
                         ELSE /\ pc' = AfterBuild(build.caller, build_type)
                              /\ UNCHANGED << output, exitCode >>
    /\ UNCHANGED << argv, macos, manifests, env, args, path, cwd, cwdWrites,
                    build_type, run, build, dirs >>

\* ---------------------------------------------------------- hfuzz_clean()
\* lines 202-212
Clean ==
    /\ pc = "hfuzz_clean"
    /\ \E e \in Observe(env, { "CARGO_TARGET_DIR", "CARGO" }), end \in Outcomes :
          LET cmd == Cmd("clean", unwrap_or(e.CARGO, <<>>),
                         By("orchestrator", << <<"clean">> >>) \o By("passthrough", args),
                         { <<"CARGO_TARGET_DIR", unwrap_or(e.CARGO_TARGET_DIR, HONGGFUZZ_TARGET)>> },
                         end)
          IN  /\ env' = e
              /\ IF e.CARGO.st # "set"
                 THEN Panic /\ UNCHANGED << procs, args >>
                 ELSE /\ procs' = Append(procs, cmd)
                      /\ args' = <<>>
                      /\ IF end.res = "nostart" THEN Panic
                         ELSE IF ~success(end)
                         THEN Exit(code_or_1(end)) /\ UNCHANGED output
                         ELSE Exit(0) /\ UNCHANGED output
    /\ UNCHANGED << argv, macos, manifests, rustc, path, cwd, cwdWrites,
                    build_type, run, build, dirs >>

\* ------------------------------------------------------------ hfuzz_run()
\* lines 68-77: take the target name, read the directories from the
\* environment and call hfuzz_build for that binary
RunBegin ==
    /\ pc = "hfuzz_run"
    /\ IF args = <<>>
       THEN /\ Fail("please specify the name of the target", 1)
            /\ UNCHANGED << args, env, run, build >>
       ELSE \E e \in Observe(env, { "CARGO_TARGET_DIR", "HFUZZ_WORKSPACE", "HFUZZ_INPUT" }) :
              LET target == Head(args)
                  workspace == unwrap_or(e.HFUZZ_WORKSPACE, HONGGFUZZ_WORKSPACE)
              IN  /\ args' = Tail(args)
                  /\ env' = e
                  /\ run' = [run EXCEPT
                        !.target = target,
                        !.honggfuzz_target = unwrap_or(e.CARGO_TARGET_DIR, HONGGFUZZ_TARGET),
                        !.honggfuzz_workspace = workspace,
                        !.honggfuzz_input =
                            unwrap_or(e.HFUZZ_INPUT,
                                      workspace \o <<"/">> \o target \o <<"/", "input">>)]
                  /\ build' = [build EXCEPT
                        !.caller = "run",
                        !.args = By("passthrough", << <<"--bin">>, target >>)]
                  /\ pc' = "hfuzz_build"
                  /\ UNCHANGED << output, exitCode >>
    /\ UNCHANGED << argv, macos, manifests, rustc, path, cwd, cwdWrites,
                    build_type, procs, dirs >>

\* a faulty variant of RunDebugArgs: the crash filename is read but left in
\* args, so that it is also handed on with the remaining arguments
RunDebugArgs_keeps_crash_in_args ==
    /\ pc = "run_debug"
    /\ IF args = <<>>
       THEN /\ Fail("please specify the crash filename", 1)
            /\ UNCHANGED << run >>
       ELSE /\ run' = [run EXCEPT !.crash_filename = Head(args)]
            /\ pc' = "debugger"
            /\ UNCHANGED << output, exitCode >>
    /\ UNCHANGED << argv, macos, manifests, env, rustc, args, path, cwd, cwdWrites,
                    build_type, build, procs, dirs >>

\* lines 81-84: run-debug needs the crash filename
RunDebugArgs ==
    /\ pc = "run_debug"
    /\ IF args = <<>>
       THEN /\ Fail("please specify the crash filename", 1)
            /\ UNCHANGED << args, run >>
       ELSE /\ run' = [run EXCEPT !.crash_filename = Head(args)]
            /\ args' = Tail(args)
            /\ pc' = "debugger"
            /\ UNCHANGED << output, exitCode >>
    /\ UNCHANGED << argv, macos, manifests, env, rustc, path, cwd, cwdWrites,
                    build_type, build, procs, dirs >>

\* a faulty variant of IsLldb: "lldb" is looked for in the whole path
IsLldb_whole_path(debugger) == Contains(debugger, <<"lldb">>)

\* line 55: the file name of the debugger contains "lldb"
IsLldb(debugger) ==
    LET f == file_name(debugger) IN f.some /\ Contains(f.val, <<"lldb">>)

\* lines 57 and 60: format!("{}/{}/debug/{}", honggfuzz_target, triple, target)
DebugArtifact(target_dir, triple, target) ==
    target_dir \o <<"/">> \o triple \o <<"/", "debug", "/">> \o target

\* lines 53-62: the arguments debugger_command gives the debugger
DebuggerArgs(debugger, artifact) ==
    IF IsLldb(debugger)
    THEN By("orchestrator",
            << <<"-o">>, <<"b", " ", "rust_panic">>, <<"-o">>, <<"r">>, <<"-o">>, <<"bt">>,
               <<"-f">>, artifact, <<"--">> >>)
    ELSE By("orchestrator",
            << <<"-ex">>, <<"b", " ", "rust_panic">>, <<"-ex">>, <<"r">>, <<"-ex">>, <<"bt">>,
               <<"--args">>, artifact >>)

\* lines 86-94 with debugger_command (lines 49-65): start the debugger on
\* the debug artifact, wait for it and leave with its code when it failed
Debugger ==
    /\ pc = "debugger"
    /\ \E e \in Observe(env, { "HFUZZ_DEBUGGER", "CARGO_TARGET_DIR", "RUST_BACKTRACE" }),
          r \in ObserveRustc, end \in Outcomes :
          LET debugger == unwrap_or(e.HFUZZ_DEBUGGER, <<"rust-", "lldb">>)
              target_dir == unwrap_or(e.CARGO_TARGET_DIR, HONGGFUZZ_TARGET)
              tt == target_triple(r)
              cmd == Cmd("debugger", debugger,
                         DebuggerArgs(debugger, DebugArtifact(target_dir, tt.triple, run.target))
                             \o By("passthrough", args),
                         { <<"CARGO_HONGGFUZZ_CRASH_FILENAME", run.crash_filename>>,
                           <<"RUST_BACKTRACE", unwrap_or(e.RUST_BACKTRACE, <<"1">>)>> },
                         end)
          IN  /\ rustc' = r
              /\ IF ~tt.ok
                 THEN /\ env' = [env EXCEPT !.HFUZZ_DEBUGGER = e.HFUZZ_DEBUGGER,
                                             !.CARGO_TARGET_DIR = e.CARGO_TARGET_DIR]
                      /\ procs' = Append(procs, RustcCmd(r))
                      /\ Panic
                      /\ UNCHANGED args
                 ELSE /\ env' = e
                      /\ procs' = procs \o << RustcCmd(r), cmd >>
                      /\ args' = <<>>
                      /\ IF end.res = "nostart" THEN Panic
                         ELSE IF ~success(end)
                         THEN Exit(code_or_1(end)) /\ UNCHANGED output
                         ELSE Exit(0) /\ UNCHANGED output
    /\ UNCHANGED << argv, macos, manifests, path, cwd, cwdWrites, build_type,
                    run, build, dirs >>

\* a faulty variant of RunMkdir: create_dir_all(..).unwrap(), a failure to
\* create the seed directory ends the invocation
RunMkdir_failure_is_fatal ==
    /\ pc = "run_fuzz"
    /\ \E e \in Observe(env, { "ASAN_OPTIONS", "TSAN_OPTIONS", "HFUZZ_RUN_ARGS" }),
          created \in BOOLEAN :
          LET dir == run.honggfuzz_workspace \o <<"/">> \o run.target \o <<"/", "input">>
          IN  /\ env' = e
              /\ IF created
                 THEN /\ dirs' = dirs \cup { dir }
                      /\ run' = [run EXCEPT !.mkdir = "created"]
                      /\ pc' = "exec"
                      /\ UNCHANGED << output, exitCode >>
                 ELSE /\ run' = [run EXCEPT !.mkdir = "failed"]
                      /\ Panic
                      /\ UNCHANGED dirs
    /\ UNCHANGED << argv, macos, manifests, rustc, args, path, cwd, cwdWrites,
                    build_type, build, procs >>

\* lines 98-111: read the options of the engine, then create the seed
\* directory; a failure is printed and nothing else
RunMkdir ==
    /\ pc = "run_fuzz"
    /\ \E e \in Observe(env, { "ASAN_OPTIONS", "TSAN_OPTIONS", "HFUZZ_RUN_ARGS" }),
          created \in BOOLEAN :
          LET dir == run.honggfuzz_workspace \o <<"/">> \o run.target \o <<"/", "input">>
          IN  /\ env' = e
              /\ IF created
                 THEN /\ dirs' = dirs \cup { dir }
                      /\ run' = [run EXCEPT !.mkdir = "created"]
                      /\ UNCHANGED output
                 ELSE /\ output' = Append(output, "error: failed to create")
                      /\ run' = [run EXCEPT !.mkdir = "failed"]
                      /\ UNCHANGED dirs
    /\ pc' = "exec"
    /\ UNCHANGED << argv, macos, manifests, rustc, args, path, cwd, cwdWrites,
                    build_type, build, procs, exitCode >>

\* line 117: format!("{}/{}/release/{}", honggfuzz_target, triple, target)
ReleaseArtifact(target_dir, triple, target) ==
    target_dir \o <<"/">> \o triple \o <<"/", "release", "/">> \o target

\* lines 115-118: the arguments given to honggfuzz
FuzzArgs(workspace, input, target, run_args, artifact, rest) ==
    By("orchestrator", << <<"-W">>, workspace \o <<"/">> \o target, <<"-f">>, input, <<"-P">> >>)
    \o By("user", split_whitespace(run_args))
    \o By("orchestrator", << <<"--">>, artifact >>)
    \o By("passthrough", rest)

\* lines 99, 102, 119-120: the sanitizer options set on honggfuzz
FuzzEnv(asan, tsan) ==
    { <<"ASAN_OPTIONS", <<"detect_odr_violation=0", ":">> \o asan>>,
      <<"TSAN_OPTIONS", <<"report_signal_unsafe=0", ":">> \o tsan>> }

\* lines 113-125: replace the process by honggfuzz; the code after exec
\* runs only when the replacement failed
RunExec ==
    /\ pc = "exec"
    /\ \E r \in ObserveRustc, replaced \in BOOLEAN :
          LET tt == target_triple(r)
              cmd == Cmd("honggfuzz", run.honggfuzz_target \o <<"/", "honggfuzz">>,
                         FuzzArgs(run.honggfuzz_workspace, run.honggfuzz_input, run.target,
                                  unwrap_or(env.HFUZZ_RUN_ARGS, <<>>),
                                  ReleaseArtifact(run.honggfuzz_target, tt.triple, run.target),
                                  args),
                         FuzzEnv(unwrap_or(env.ASAN_OPTIONS, <<>>),
                                 unwrap_or(env.TSAN_OPTIONS, <<>>)),
                         IF replaced THEN [res |-> "replaced", code |-> -1]
                         ELSE [res |-> "nostart", code |-> -1])
          IN  /\ rustc' = r
              /\ IF ~tt.ok
                 THEN /\ procs' = Append(procs, RustcCmd(r))
                      /\ Panic
                      /\ UNCHANGED args
                 ELSE /\ procs' = procs \o << RustcCmd(r), cmd >>
                      /\ args' = <<>>
                      /\ IF replaced
                         THEN pc' = "replaced" /\ UNCHANGED << output, exitCode >>
                         ELSE Fail("cannot execute honggfuzz", 1)
    /\ UNCHANGED << argv, macos, manifests, env, path, cwd, cwdWrites, build_type,
                    run, build, dirs >>

\* ------------------------------------------------------ the specification
Next ==
    \/ Main
    \/ CdStart
    \/ CdStep
    \/ Dispatch
    \/ Version
    \/ BuildPrepare
    \/ BuildCommand
    \/ Clean
    \/ RunBegin
    \/ RunDebugArgs
    \/ Debugger
    \/ RunMkdir
    \/ RunExec

Spec == Init /\ [][Next]_vars

\* the invocation is one thread that always takes its next step; a step that
\* waits for a child process (lines 24, 63-64, 195) is taken when the child
\* ends, and every child of Outcomes ends
SpecFair == Spec /\ WF_vars(Next)

\* ------------------------------------------------- notions of the claims
\* the verb of the invocation, when the entry check lets it through
Verb == IF Len(argv) >= 2 /\ argv[1] = <<"hfuzz">> THEN argv[2] ELSE <<"(none)">>

RunVerbs == { <<"run">>, <<"run-no-inst">>, <<"run-debug">> }

Terminated == pc \in { "exited", "replaced" }

\* the commands of procs of one kind, started or not
Of(kind) == SelectSeq(procs, LAMBDA c : c.kind = kind)

EngineOrDebugger == SelectSeq(procs, LAMBDA c : c.kind \in { "honggfuzz", "debugger" })

\* the entry check of main lets the command line through
PassesEntry == argv # <<>> /\ argv[1] = <<"hfuzz">>

\* the child exited with code 0
ExitedZero(c) == c.end.res = "exit" /\ c.end.code = 0

\* the child exited with a code other than 0
ExitedNonZero(c) == c.end.res = "exit" /\ c.end.code # 0

\* the value of variable n in the environment set on command c
EnvOf(c, n) == { kv[2] : kv \in { x \in c.env : x[1] = n } }

\* the flag (a sequence of words) occurs among the tokens of a flag string
HasFlagIn(tokens, words) ==
    Contains(tokens, [i \in 1..Len(words) |-> << words[i] >>])

\* the flag occurs in the flag string s
HasFlag(s, words) == HasFlagIn(split_whitespace(s), words)

\* ------------------------------------------------------------------- C1
\* C1: with run, run-no-inst and run-debug, the fuzzing engine and the
\* debugger are started only after the build tool was started and exited
\* with success; when the build tool exits non-zero the orchestrator has
\* exited and neither the engine nor the debugger is in the list of commands.
C1_RunOnlyAfterSuccessfulBuild ==
    /\ \A i \in 1..Len(procs) :
          procs[i].kind \in { "honggfuzz", "debugger" }
          => \E j \in 1..(i - 1) : procs[j].kind = "build" /\ ExitedZero(procs[j])
    /\ \A j \in 1..Len(procs) :
          (procs[j].kind = "build" /\ ~ExitedZero(procs[j]))
          => pc = "exited" /\ EngineOrDebugger = <<>>

C1_Witness ==
    /\ Verb = <<"run">>
    /\ pc = "exited"
    /\ \E j \in 1..Len(procs) : procs[j].kind = "build" /\ ExitedNonZero(procs[j])

\* ------------------------------------------------------------------- C2
\* C2: when the build tool, the clean operation or the debugger exits with
\* a code c other than 0, the orchestrator has exited with exactly c, that
\* command is the last one it started and the only one of its kind.
C2_ChildCodePropagated ==
    \A i \in 1..Len(procs) :
        (procs[i].kind \in { "build", "clean", "debugger" } /\ ExitedNonZero(procs[i]))
        => /\ pc = "exited"
           /\ exitCode = procs[i].end.code
           /\ i = Len(procs)
           /\ Len(Of(procs[i].kind)) = 1

C2_Witness ==
    /\ pc = "exited"
    /\ exitCode = MaxExit
    /\ procs # <<>>
    /\ procs[Len(procs)].kind = "debugger"
    /\ ExitedNonZero(procs[Len(procs)])

\* ------------------------------------------------------------------- C3
\* a required positional argument is missing: a run verb without a target
\* name, or run-debug with a target name and no crash filename
MissingArgument ==
    \/ Verb \in RunVerbs /\ Len(argv) = 2
    \/ Verb = <<"run-debug">> /\ Len(argv) = 3

\* C3 (as claimed): an invocation that lacks a required positional argument
\* ends with exit code 1, whatever the build tool does, and starts neither
\* the fuzzing engine nor the debugger.  Stated for the invocations in
\* which no unwrap panicked (CARGO is set, rustc answers, the build tool
\* can be started), so that only what the build tool does is left to decide.
C3_MissingArgumentExitsOne ==
    ( /\ MissingArgument
      /\ Terminated
      /\ \A i \in 1..Len(output) : output[i] # "panic" )
    => exitCode = 1 /\ EngineOrDebugger = <<>>

\* ------------------------------------------------------------------- C4
\* C4: with run and run-no-inst the orchestrator never exits with code 0;
\* once the build succeeded it ends replaced by the fuzzing engine, or, the
\* replacement having failed, with exit code 1; after the replacement no
\* step of the orchestrator follows.
C4_Ends ==
    Verb \in { <<"run">>, <<"run-no-inst">> }
    => /\ pc = "exited" => exitCode # 0
       /\ (pc = "exited" /\ \E j \in 1..Len(procs) :
                                procs[j].kind = "build" /\ ExitedZero(procs[j]))
          => /\ exitCode = 1
             /\ procs[Len(procs)].kind = "honggfuzz"
             /\ procs[Len(procs)].end.res = "nostart"
       /\ pc = "replaced"
          => /\ procs[Len(procs)].kind = "honggfuzz"
             /\ procs[Len(procs)].end.res = "replaced"
             /\ exitCode = -1

C4_NonDebugRunNeverExitsZero == [] C4_Ends /\ [][pc # "replaced"]_vars

C4_Witness ==
    /\ Verb = <<"run-no-inst">>
    /\ pc = "exited"
    /\ exitCode = 1
    /\ procs # <<>>
    /\ procs[Len(procs)].kind = "honggfuzz"

\* ------------------------------------------------------------------- C5
\* C5: when the first token is not "hfuzz" or is absent, the invocation
\* does nothing but exit with code 1: the working directory is not written,
\* no directory is created and no command is started.
C5_NotSubcommandNoEffects ==
    (argv = <<>> \/ argv[1] # <<"hfuzz">>)
    => /\ pc \in { "main", "exited" }
       /\ pc = "exited" => exitCode = 1
       /\ cwd = StartDir
       /\ cwdWrites = 0
       /\ dirs = {}
       /\ procs = <<>>

C5_Witness ==
    /\ argv # <<>>
    /\ argv[1] # <<"hfuzz">>
    /\ pc = "exited"

\* ------------------------------------------------------------------- C6
\* the deepest directory, among StartDir and its ancestors, with a manifest
Nearest ==
    CHOOSE d \in manifests : \A other \in manifests : Len(other) <= Len(d)

InLocator == pc \in { "main", "cd_to_crate_root", "cd_loop" }

\* C6: when the root locator has written the working directory, it is the
\* nearest directory, among the starting directory and its ancestors, that
\* holds a manifest, and the locator does write it whenever there is one;
\* when no directory up to the root holds a manifest the invocation goes no
\* further than the locator, exits with code 1, and the working directory
\* is still the starting directory.
C6_NearestManifest ==
    /\ cwdWrites >= 1 => manifests # {} /\ cwd = Nearest
    /\ (PassesEntry /\ manifests # {} /\ ~InLocator) => cwdWrites >= 1
    /\ manifests = {}
       => /\ InLocator \/ pc = "exited"
          /\ pc = "exited" => exitCode = 1
          /\ cwd = StartDir
          /\ cwdWrites = 0

C6_Witness ==
    /\ cwdWrites = 1
    /\ Cardinality(manifests) >= 2
    /\ StartDir \notin manifests
    /\ cwd = Nearest
    /\ cwd # <<>>

\* ------------------------------------------------------------------- C7
C7_State ==
    /\ cwdWrites <= 1
    /\ procs # <<>> => cwdWrites = 1
    /\ (PassesEntry /\ manifests # {} /\ ~InLocator) => cwdWrites = 1

C7_Step ==
    /\ cwd' # cwd => cwdWrites = 0
    /\ cwdWrites' # cwdWrites => procs = <<>>
    /\ cwdWrites >= 1 => (cwd' = cwd /\ cwdWrites' = cwdWrites)

\* C7: in an invocation that passes the entry check and finds a manifest,
\* the working directory is written exactly once, no command is started
\* before that write, and after it the working directory is never written
\* again, whatever the verb.
C7_CwdWrittenOnceFirst == [] C7_State /\ [][C7_Step]_vars

C7_Witness ==
    /\ Verb = <<"run-debug">>
    /\ pc = "exited"
    /\ Len(procs) >= 3
    /\ cwdWrites = 1
    /\ cwd # StartDir

\* ------------------------------------------------------------------- C8
\* C8 (as claimed): on every build command the user's compiler flags are
\* the end of the RUSTFLAGS string, after all computed flags, and no
\* argument added by the orchestrator (the build verb, the target triple,
\* the pass-through arguments, the release switch) follows an argument of
\* the user's HFUZZ_BUILD_ARGS.
C8_UserValuesLast ==
    \A c \in { procs[i] : i \in 1..Len(procs) } :
        (c.kind = "build" /\ Started(c))
        => /\ EnvOf(c, "RUSTFLAGS")
                = { build.computed \o unwrap_or(env.RUSTFLAGS, <<>>) }
           /\ \A i, j \in 1..Len(c.args) :
                 (i < j /\ c.args[i].by = "user") => c.args[j].by = "user"

\* ------------------------------------------------------------------- C9
\* the flag assembler has run: rustflags holds the computed flags
Assembled == build.computed # <<>>

CoverageGuardFlags ==
    { << "-C", "passes=sancov" >>,
      << "-C", "llvm-args=-sanitizer-coverage-level=4" >>,
      << "-C", "llvm-args=-sanitizer-coverage-trace-pc-guard" >>,
      << "-C", "llvm-args=-sanitizer-coverage-prune-blocks=0" >> }

\* C9: in the computed flag string (the user's flags not yet appended) each
\* coverage-guard flag is present if and only if the mode is
\* ReleaseInstrumented, and the comparison-tracing flag is present if and
\* only if the mode is ReleaseInstrumented and the platform is not macOS.
C9_InstrumentationIffInstrumented ==
    Assembled
    => LET tokens == split_whitespace(build.computed)
       IN  /\ \A f \in CoverageGuardFlags :
                 HasFlagIn(tokens, f) <=> build_type = "ReleaseInstrumented"
           /\ HasFlagIn(tokens, << "-C", "llvm-args=-sanitizer-coverage-trace-compares" >>)
                 <=> (build_type = "ReleaseInstrumented" /\ ~macos)

C9_Witness ==
    /\ Assembled
    /\ build_type = "ReleaseInstrumented"
    /\ macos
    /\ HasFlag(build.computed, << "-C", "llvm-args=-sanitizer-coverage-trace-pc-guard" >>)

\* ------------------------------------------------------------------ C10
\* C10: the computed flag string of Debug holds panic=unwind, opt-level=0
\* and debuginfo=2 and neither panic=abort nor opt-level=3; the computed
\* flag string of both release modes holds panic=abort, opt-level=3 and
\* debuginfo=0 and neither panic=unwind nor opt-level=0.
C10_ModeFlags ==
    Assembled
    => LET tokens == split_whitespace(build.computed)
           has(f) == HasFlagIn(tokens, << "-C", f >>)
       IN  IF build_type = "Debug"
           THEN /\ has("panic=unwind") /\ has("opt-level=0") /\ has("debuginfo=2")
                /\ ~has("panic=abort") /\ ~has("opt-level=3")
           ELSE /\ build_type \in { "ReleaseInstrumented", "ReleaseNotInstrumented" }
                /\ has("panic=abort") /\ has("opt-level=3") /\ has("debuginfo=0")
                /\ ~has("panic=unwind") /\ ~has("opt-level=0")

C10_Witness ==
    /\ Assembled
    /\ build_type = "Debug"
    /\ HasFlag(build.computed, << "-C", "panic=unwind" >>)

\* ------------------------------------------------------------------ C11
\* the build commands that were started
BuildCmds == { c \in { procs[i] : i \in 1..Len(procs) } : c.kind = "build" /\ Started(c) }

\* C11: the RUSTFLAGS string set on the build tool holds the fuzzing-context
\* flag, the debug-assertions flag and the overflow-checks flag, in each of
\* the three build modes and whatever the user's RUSTFLAGS is.
C11_CommonFlagsAlways ==
    \A c \in BuildCmds :
        /\ build_type \in BuildType
        /\ \A flags \in EnvOf(c, "RUSTFLAGS") :
              LET tokens == split_whitespace(flags)
              IN  /\ HasFlagIn(tokens, << "--cfg", "fuzzing" >>)
                  /\ HasFlagIn(tokens, << "-C", "debug-assertions" >>)
                  /\ HasFlagIn(tokens, << "-C", "overflow_checks" >>)
        /\ EnvOf(c, "RUSTFLAGS") # {}

C11_Witness ==
    /\ BuildCmds # {}
    /\ build_type = "ReleaseNotInstrumented"
    /\ env.RUSTFLAGS.st = "set"
    /\ env.RUSTFLAGS.val # <<>>

\* ------------------------------------------------------------------ C12
\* the compiler was asked for the host triple and gave none: it could not
\* be started, or no line of its output starts with "host: "
TripleUnresolved ==
    \/ rustc.st = "missing"
    \/ rustc.st = "ran" /\ \A i \in 1..Len(rustc.out) : rustc.out[i][1] # "host: "

\* C12 (as claimed): when the host triple cannot be resolved the invocation
\* ends with exit code 1, and neither the build tool nor the fuzzing engine
\* nor the debugger is started.
C12_UnresolvedTripleExitsOne ==
    TripleUnresolved
    => /\ pc = "exited"
       /\ exitCode = 1
       /\ \A i \in 1..Len(procs) : procs[i].kind = "rustc"

\* ------------------------------------------------------------------ C13
DebuggerCmds == { c \in { procs[i] : i \in 1..Len(procs) } : c.kind = "debugger" }

\* the arguments of command c that were supplied by who, in order
ArgsBy(c, who) == Toks(SelectSeq(c.args, LAMBDA a : a.by = who))

\* the tokens of the two dialects of scripted commands
ScriptTokens ==
    { <<"-o">>, <<"-ex">>, <<"b", " ", "rust_panic">>, <<"r">>, <<"bt">>,
      <<"-f">>, <<"--args">>, <<"--">> }

\* the text is a path whose last component is the target name
NamesTarget(text, target) ==
    /\ Len(text) > Len(target)
    /\ SubSeq(text, Len(text) - Len(target), Len(text)) = <<"/">> \o target

\* C13: in run-debug the debugger gets the crash filename (the second
\* positional argument) as the value of CARGO_HONGGFUZZ_CRASH_FILENAME and
\* in no argument; its arguments are the scripted commands and the artifact
\* path, followed by the arguments that came after the crash filename.
C13_CrashFilenameOnlyInEnv ==
    \A c \in DebuggerCmds :
        /\ Verb = <<"run-debug">>
        /\ Len(argv) >= 4
        /\ EnvOf(c, "CARGO_HONGGFUZZ_CRASH_FILENAME") = { argv[4] }
        /\ \A i \in 1..Len(c.args) : c.args[i].tok # argv[4]
        /\ Toks(c.args) = ArgsBy(c, "orchestrator") \o SubSeq(argv, 5, Len(argv))
        /\ LET own == ArgsBy(c, "orchestrator")
           IN  /\ \A i \in 1..Len(own) :
                     own[i] \in ScriptTokens \/ NamesTarget(own[i], argv[3])
               /\ Cardinality({ i \in 1..Len(own) : own[i] \notin ScriptTokens }) = 1

C13_Witness ==
    /\ DebuggerCmds # {}
    /\ Len(argv) >= 5
    /\ \E c \in DebuggerCmds : Started(c) /\ ArgsBy(c, "passthrough") # <<>>

\* ------------------------------------------------------------------ C15
\* the last path component of a text that does not end with "/"
NameAtoms(d) ==
    LET slashes == { i \in 1..Len(d) : d[i] = "/" }
        last == IF slashes = {} THEN 0
                ELSE CHOOSE i \in slashes : \A j \in slashes : j <= i
    IN  SubSeq(d, last + 1, Len(d))

LldbNamed(d) == \E i \in 1..Len(NameAtoms(d)) : NameAtoms(d)[i] = "lldb"

\* C15: the dialect depends on the file name of the configured debugger
\* only.  With "lldb" in the file name, or with HFUZZ_DEBUGGER not set, the
\* arguments start with -o "b rust_panic" -o r -o bt -f ARTIFACT --; in
\* every other case they start with -ex "b rust_panic" -ex r -ex bt --args
\* ARTIFACT.
C15_DialectByFileName ==
    \A c \in DebuggerCmds :
        LET own == ArgsBy(c, "orchestrator")
            lldb == env.HFUZZ_DEBUGGER.st # "set" \/ LldbNamed(env.HFUZZ_DEBUGGER.val)
        IN  /\ env.HFUZZ_DEBUGGER.st \in { "set", "unset" }
            /\ IF lldb
               THEN /\ Len(own) = 9
                    /\ SubSeq(own, 1, 7) =
                         << <<"-o">>, <<"b", " ", "rust_panic">>, <<"-o">>, <<"r">>,
                            <<"-o">>, <<"bt">>, <<"-f">> >>
                    /\ NamesTarget(own[8], argv[3])
                    /\ own[9] = <<"--">>
               ELSE /\ Len(own) = 8
                    /\ SubSeq(own, 1, 7) =
                         << <<"-ex">>, <<"b", " ", "rust_panic">>, <<"-ex">>, <<"r">>,
                            <<"-ex">>, <<"bt">>, <<"--args">> >>
                    /\ NamesTarget(own[8], argv[3])

\* a debugger in a directory named lldb whose file name is not: GDB dialect
C15_Witness ==
    /\ DebuggerCmds # {}
    /\ env.HFUZZ_DEBUGGER.st = "set"
    /\ Contains(env.HFUZZ_DEBUGGER.val, <<"lldb">>)
    /\ ~LldbNamed(env.HFUZZ_DEBUGGER.val)
    /\ \E c \in DebuggerCmds : c.args[1].tok = <<"-ex">>

\* ------------------------------------------------------------------ C16
FuzzCmds == { c \in { procs[i] : i \in 1..Len(procs) } : c.kind = "honggfuzz" }

\* the value of option opt (the token after it) among the arguments of c
OptionOf(c, opt) ==
    { c.args[i + 1].tok : i \in { j \in 1..(Len(c.args) - 1) : c.args[j].tok = opt } }

\* C16 (as claimed): the directory the orchestrator created for the seed
\* inputs is the directory it gives honggfuzz as input directory (-f),
\* whatever HFUZZ_WORKSPACE and HFUZZ_INPUT are.
C16_CreatedDirIsInputDir ==
    \A c \in FuzzCmds : \A d \in dirs : OptionOf(c, <<"-f">>) = { d }

\* ------------------------------------------------------------------ C17
\* C17: once the creation of the seed directory was tried, with or without
\* success, the orchestrator goes on to the replacement by honggfuzz: it is
\* about to try it, or it has tried it and ended replaced or, the
\* replacement having failed, with exit code 1.
C17_MkdirFailureNotFatal ==
    run.mkdir \in { "created", "failed" }
    => \/ pc = "exec" /\ FuzzCmds = {}
       \/ /\ procs[Len(procs)].kind = "honggfuzz"
          /\ \/ pc = "replaced" /\ procs[Len(procs)].end.res = "replaced"
             \/ pc = "exited" /\ exitCode = 1 /\ procs[Len(procs)].end.res = "nostart"

C17_Witness ==
    /\ run.mkdir = "failed"
    /\ dirs = {}
    /\ pc = "replaced"

\* ------------------------------------------------------------------ C18
\* the orchestrator gave command c the release switch
ReleaseSwitch(c) ==
    \E i \in 1..Len(c.args) :
        c.args[i].tok = <<"--release">> /\ c.args[i].by = "orchestrator"

\* C18: on every build command, of a build verb or of a run verb, each of
\* CARGO_HONGGFUZZ_BUILD_VERSION and CARGO_HONGGFUZZ_TARGET_DIR is set if
\* and only if the mode is not Debug, and the orchestrator passes --release
\* if and only if the mode is not Debug.
C18_MarkersIffNotDebug ==
    \A c \in { procs[i] : i \in 1..Len(procs) } :
        c.kind = "build"
        => /\ EnvOf(c, "CARGO_HONGGFUZZ_BUILD_VERSION") # {} <=> build_type # "Debug"
           /\ EnvOf(c, "CARGO_HONGGFUZZ_TARGET_DIR") # {} <=> build_type # "Debug"
           /\ ReleaseSwitch(c) <=> build_type # "Debug"
           /\ Verb \in RunVerbs \cup { <<"build">>, <<"build-no-inst">>, <<"build-debug">> }

C18_Witness ==
    /\ Verb = <<"run-debug">>
    /\ BuildCmds # {}
    /\ \A c \in BuildCmds : ~ReleaseSwitch(c) /\ EnvOf(c, "CARGO_HONGGFUZZ_BUILD_VERSION") = {}

\* ------------------------------------------------------------------ C19
\* the artifact path among the arguments of an engine or debugger command:
\* the last argument honggfuzz gets from the orchestrator (after "--"), the
\* eighth one of the debugger (after -f or --args)
ArtifactOf(c) ==
    LET own == ArgsBy(c, "orchestrator")
    IN  IF c.kind = "honggfuzz" THEN own[Len(own)] ELSE own[8]

\* the path that names what build command b produces for profile directory
\* profile: OUTPUT_DIR/TRIPLE/profile/BIN, from the variables and arguments
\* the orchestrator gave b
Produced(b, profile) ==
    { dir \o <<"/">> \o b.args[3].tok \o <<"/", profile, "/">> \o bin :
        dir \in EnvOf(b, "CARGO_TARGET_DIR"), bin \in OptionOf(b, <<"--bin">>) }

\* some argument of b, whoever supplied it, is the release switch
AnyReleaseSwitch(b) == \E i \in 1..Len(b.args) : b.args[i].tok = <<"--release">>

\* the engine and debugger commands that were started
RunCmds == { c \in FuzzCmds \cup DebuggerCmds : c.end.res # "nostart" }

\* C19: the artifact path given to the fuzzing engine or the
\* debugger is OUTPUT_DIR/TRIPLE/PROFILE/BIN of the build command before it,
\* PROFILE being release exactly when that command has the release switch.
C19_ArtifactIsWhatWasBuilt ==
    \A c \in RunCmds :
        /\ Cardinality(BuildCmds) = 1
        /\ \A b \in BuildCmds :
              /\ b.args[2].tok = <<"--target">>
              /\ { ArtifactOf(c) } =
                   Produced(b, IF AnyReleaseSwitch(b) THEN "release" ELSE "debug")

\* ------------------------------------------------------------------ C20
\* the order of the steps of an invocation: every step but a turn of the
\* walk's loop moves to a later position
Rank(p) ==
    CASE p = "main" -> 0
      [] p = "cd_to_crate_root" -> 1
      [] p = "cd_loop" -> 2
      [] p = "dispatch" -> 3
      [] p \in { "hfuzz_run", "hfuzz_clean", "hfuzz_version" } -> 4
      [] p = "hfuzz_build" -> 5
      [] p = "build_command" -> 6
      [] p \in { "run_debug", "run_fuzz" } -> 7
      [] p \in { "debugger", "exec" } -> 8
      [] p \in { "exited", "replaced" } -> 9

C20_AtMostOneOfEach ==
    /\ Len(Of("build")) + Len(Of("clean")) <= 1
    /\ Len(Of("honggfuzz")) + Len(Of("debugger")) <= 1

C20_StepForward ==
    \/ Rank(pc') > Rank(pc)
    \/ pc = "cd_loop" /\ pc' = "cd_loop" /\ Len(path') < Len(path)

\* C20: every invocation ends, exited or replaced by the fuzzing engine; the
\* walk of the root locator shortens its path at every turn, at most one
\* build-tool process and at most one of engine or debugger is launched, and
\* no step is taken twice.
C20_EveryInvocationEnds ==
    /\ <>Terminated
    /\ []C20_AtMostOneOfEach
    /\ [][C20_StepForward]_vars

C20_Witness ==
    /\ pc = "replaced"
    /\ Len(cwd) < Len(StartDir)
    /\ Len(Of("build")) = 1
    /\ Len(Of("honggfuzz")) = 1

====
